---- MODULE Spec2Model ----
(***************************************************************************)
(* Model of consulta-cedula-ecuador-go: the identifier validator, the      *)
(* name split and the handlers of /api/consultar and                       *)
(* /api/consultar-nombres of cmd/web/main.go (the tax-registry variant),   *)
(* with the name handler of the informational variant as a second          *)
(* deployment.                                                             *)
(*                                                                         *)
(* A Go string is a sequence of characters; a character is a one-element   *)
(* TLA+ string, and a character outside ASCII is written by its code       *)
(* point ("U+00F1") so that its UTF-8 width can be looked up.              *)
(***************************************************************************)
EXTENDS Integers, Sequences, FiniteSets, TLC

VARIABLES
    cedulaIn,       \* validator harness: the string handed to validarCedula
    validaOut,      \* validator harness: <<>>, then <<the boolean returned>>
    nombreIn,       \* split harness: the full name, as its structure
    splitOut,       \* split harness: <<>>, then <<the result of the split>>
    textoIn,        \* search harness: the text the name-lookup site answered
    buscarOut,      \* search harness: <<>>, then <<the response written>>
    frontOut,       \* validator harness: <<>>, then <<what the browser check returned>>
    collyOut,       \* split harness: <<>>, then <<the split of the scraping variants>>
    formIn,         \* form harness: the nombres and apellidos submitted
    formOut,        \* form harness: <<>>, then <<the body sent to the site>>
    variante,       \* the deployment: "scraping" or "informativa"
    sirviendo,      \* the server process is alive
    pc,             \* per connection: "libre", "esperando", "respondida"
    peticion,       \* per connection: the inbound request being handled
    salientes,      \* per connection: outbound requests issued for it
    sri,            \* per connection: what the upstream answered
    sitio,          \* per connection: what the name-lookup site answered
    campo,          \* per connection: the payload field the name came from
    cabeceras,      \* per connection: the response headers set
    escrituras,     \* per connection: calls of w.WriteHeader
    respuesta,      \* per connection: the response written
    isLoading,      \* browser: the flag isLoading of script.js
    deshabilitado,  \* browser: disabled, per submit button
    enVuelo,        \* browser: the lookups started and not yet finished
    vista,          \* browser: what the results container shows
    ultimo,         \* browser: the last submit and what it did
    recibido        \* browser: how the fetch of the last finished lookup ended

vars == <<cedulaIn, validaOut, nombreIn, splitOut, textoIn, buscarOut,
          frontOut, collyOut, formIn, formOut,
          variante, sirviendo,
          pc, peticion, salientes, sri, sitio, campo, cabeceras, escrituras,
          respuesta,
          isLoading, deshabilitado, enVuelo, vista, ultimo, recibido>>

harnessVars == <<cedulaIn, validaOut, nombreIn, splitOut, textoIn, buscarOut,
                 frontOut, collyOut, formIn, formOut>>
serverVars == <<variante, sirviendo,
                pc, peticion, salientes, sri, sitio, campo, cabeceras, escrituras,
                respuesta>>
clienteVars == <<isLoading, deshabilitado, enVuelo, vista, ultimo, recibido>>

(***************************************************************************)
(* Bounds of the model.                                                    *)
(***************************************************************************)
MaxCedulaLen == 11
MaxPalabras == 5
NumConexiones == 2
MaxCorrida == 11
MaxCampo == 2
MaxEnVuelo == 2

(***************************************************************************)
(* Characters.                                                             *)
(***************************************************************************)
Digitos == {"0", "1", "2", "3", "4", "5", "6", "7", "8", "9"}

\* unicode.IsSpace on Latin-1: \t \n \v \f \r, space, U+0085, U+00A0
IsSpace(c) == c \in {"\t", "\n", "U+000B", "\f", "\r", " ", "U+0085", "U+00A0"}

\* bytes of the UTF-8 encoding of a character
ByteWidth(c) ==
    IF c \in {"U+0085", "U+00A0", "U+00D1", "U+00F1", "U+0663"} THEN 2 ELSE 1

\* Go's len(s): the number of bytes, not of characters
RECURSIVE len(_)
len(s) == IF s = <<>> THEN 0 ELSE ByteWidth(Head(s)) + len(Tail(s))

(***************************************************************************)
(* validarCedula                                                           *)
(***************************************************************************)
LargoCedula == 10

\* regexp.MatchString("^[0-9]+$", s): without the m flag, $ is the end of
\* the text only, so one or more digits and nothing else
MatchSoloDigitos(s) == Len(s) >= 1 /\ \A i \in 1..Len(s) : s[i] \in Digitos

validarCedulaSoloLargo(cedula) == len(cedula) = LargoCedula

validarCedula(cedula) ==
    IF len(cedula) # LargoCedula THEN FALSE ELSE MatchSoloDigitos(cedula)

(***************************************************************************)
(* strings.TrimSpace, strings.Fields, strings.Join and slice expressions   *)
(***************************************************************************)
RECURSIVE TrimLeft(_)
TrimLeft(s) ==
    IF s # <<>> /\ IsSpace(Head(s)) THEN TrimLeft(Tail(s)) ELSE s

RECURSIVE TrimRight(_)
TrimRight(s) ==
    IF s # <<>> /\ IsSpace(s[Len(s)])
    THEN TrimRight(SubSeq(s, 1, Len(s) - 1)) ELSE s

TrimSpaceIdentidad(s) == s

TrimSpace(s) == TrimRight(TrimLeft(s))

\* strings.Fields: the maximal runs of non-space characters, in order;
\* cur is the run being read and acc the fields completed so far
RECURSIVE FieldsDesde(_, _, _)
FieldsDesde(s, cur, acc) ==
    IF s = <<>>
    THEN IF cur = <<>> THEN acc ELSE Append(acc, cur)
    ELSE IF IsSpace(Head(s))
         THEN FieldsDesde(Tail(s), <<>>, IF cur = <<>> THEN acc ELSE Append(acc, cur))
         ELSE FieldsDesde(Tail(s), Append(cur, Head(s)), acc)

Fields(s) == FieldsDesde(s, <<>>, <<>>)

RECURSIVE Join(_, _)
Join(elems, sep) ==
    IF elems = <<>> THEN <<>>
    ELSE IF Len(elems) = 1 THEN elems[1]
    ELSE elems[1] \o sep \o Join(Tail(elems), sep)

\* s[i] and s[lo:hi] of Go (0-based); ok is FALSE where Go panics with an
\* index or slice bound out of range
GoIndex(s, i) ==
    IF 0 <= i /\ i < Len(s) THEN [ok |-> TRUE, v |-> s[i + 1]]
    ELSE [ok |-> FALSE, v |-> <<>>]

GoSlice(s, lo, hi) ==
    IF 0 <= lo /\ lo <= hi /\ hi <= Len(s)
    THEN [ok |-> TRUE, v |-> SubSeq(s, lo + 1, hi)]
    ELSE [ok |-> FALSE, v |-> <<>>]

(***************************************************************************)
(* The name split of consultarCedula: each result is the pair              *)
(* (nombre, apellido), with panic TRUE where the code would panic.         *)
(***************************************************************************)
Partes(n, a) ==
    [panic |-> ~(n.ok /\ a.ok),
     nombre |-> IF n.ok /\ a.ok THEN n.v ELSE <<>>,
     apellido |-> IF n.ok /\ a.ok THEN a.v ELSE <<>>]

UnidoSinEspacio(sl) == [ok |-> sl.ok, v |-> Join(sl.v, <<>>)]

\* strings.Join(palabras[lo:hi], " ")
Unido(sl) == [ok |-> sl.ok, v |-> Join(sl.v, <<" ">>)]

DosPalabrasInvertido(palabras) ==
    Partes(GoIndex(palabras, 1), GoIndex(palabras, 0))

DosPalabras(palabras) ==
    Partes(GoIndex(palabras, 0), GoIndex(palabras, 1))

TresPalabrasUltima(palabras) ==
    Partes(GoIndex(palabras, 0), GoIndex(palabras, 2))

TresPalabras(palabras) ==
    Partes(GoIndex(palabras, 0), Unido(GoSlice(palabras, 1, Len(palabras))))

MitadHaciaArriba(palabras) == (Len(palabras) + 1) \div 2

Mitad(palabras) == Len(palabras) \div 2

CuatroOMas(palabras) ==
    Partes(Unido(GoSlice(palabras, 0, Mitad(palabras))),
           Unido(GoSlice(palabras, Mitad(palabras), Len(palabras))))

NombreApellidoSinGuarda(nombreCompleto0) ==
    LET nombreCompleto == TrimSpace(nombreCompleto0)
        palabras == Fields(nombreCompleto)
    IN  IF Len(palabras) <= 2 THEN DosPalabras(palabras)
        ELSE IF Len(palabras) = 3 THEN TresPalabras(palabras)
        ELSE CuatroOMas(palabras)

NombreApellido(nombreCompleto0) ==
    LET nombreCompleto == TrimSpace(nombreCompleto0)
        palabras == Fields(nombreCompleto)
    IN  IF Len(palabras) >= 2
        THEN IF Len(palabras) = 2 THEN DosPalabras(palabras)
             ELSE IF Len(palabras) = 3 THEN TresPalabras(palabras)
             ELSE CuatroOMas(palabras)
        ELSE [panic |-> FALSE, nombre |-> nombreCompleto, apellido |-> <<>>]

(***************************************************************************)
(* The name split of the scraping variants (part_001, part_003): the text  *)
(* of a table cell is trimmed and upper-cased, and taken as a full name    *)
(* when it is longer than two bytes and matches ^[A-Z...\s]+$.             *)
(***************************************************************************)
Minusculas ==
    <<"a", "b", "c", "d", "e", "f", "g", "h", "i", "j", "k", "l", "m",
      "n", "o", "p", "q", "r", "s", "t", "u", "v", "w", "x", "y", "z">>
Mayusculas ==
    <<"A", "B", "C", "D", "E", "F", "G", "H", "I", "J", "K", "L", "M",
      "N", "O", "P", "Q", "R", "S", "T", "U", "V", "W", "X", "Y", "Z">>

\* unicode.ToUpper on the letters of the model
ToUpperChar(c) ==
    IF \E i \in 1..Len(Minusculas) : Minusculas[i] = c
    THEN Mayusculas[CHOOSE i \in 1..Len(Minusculas) : Minusculas[i] = c]
    ELSE IF c = "U+00F1" THEN "U+00D1"
    ELSE c

\* strings.ToUpper
ToUpper(s) == [i \in 1..Len(s) |-> ToUpperChar(s[i])]

\* the class [A-Z ... \s] of the pattern: A to Z, the accented capitals
\* and N with tilde, and \s of Go's regexp, which is \t \n \f \r and space
EnClaseNombre(c) ==
    \/ \E i \in 1..Len(Mayusculas) : Mayusculas[i] = c
    \/ c \in {"U+00C1", "U+00C9", "U+00CD", "U+00D3", "U+00DA", "U+00D1"}
    \/ c \in {"\t", "\n", "\f", "\r", " "}

\* the cell is taken as a full name
EsNombreColly(cellText) ==
    /\ len(cellText) > 2
    /\ ToUpper(cellText) # <<>>
    /\ \A i \in 1..Len(cellText) : EnClaseNombre(ToUpper(cellText)[i])

NombreApellidoCollyPrimera(cell) ==
    LET cellText == TrimSpace(cell)
        palabras == Fields(ToUpper(cellText))
    IN  IF ~EsNombreColly(cellText) \/ Len(palabras) = 0
        THEN [tomado |-> FALSE, panic |-> FALSE, nombre |-> <<>>, apellido |-> <<>>]
        ELSE [tomado |-> TRUE] @@
             Partes(GoIndex(palabras, 0), Unido(GoSlice(palabras, 1, Len(palabras))))

\* the split of the first cell taken as a name; a name of one word takes
\* its surname from the next cell, which is empty here
NombreApellidoColly(cell) ==
    LET cellText == TrimSpace(cell)
        palabras == Fields(ToUpper(cellText))
        mitad == Len(palabras) \div 2
    IN  IF ~EsNombreColly(cellText) \/ Len(palabras) = 0
        THEN [tomado |-> FALSE, panic |-> FALSE, nombre |-> <<>>, apellido |-> <<>>]
        ELSE IF Len(palabras) >= 2
        THEN [tomado |-> TRUE] @@
             Partes(Unido(GoSlice(palabras, 0, mitad)),
                    Unido(GoSlice(palabras, mitad, Len(palabras))))
        ELSE [tomado |-> TRUE] @@
             Partes(GoIndex(palabras, 0), [ok |-> TRUE, v |-> <<>>])

(***************************************************************************)
(* Inputs of the validator and of the name split.                          *)
(***************************************************************************)
DigitoDe(i) == <<"0", "1", "2", "3", "4", "5", "6", "7", "8", "9">>[(i % 10) + 1]

\* replacement characters: two digits, a letter, a space, a newline, a
\* hyphen, a two-byte letter and a two-byte (Arabic-Indic) digit
Reemplazos == {"0", "9", "a", " ", "\n", "-", "U+00F1", "U+0663"}

\* n characters, the digits 1234567890..., with the character at position p
\* (if any) replaced by c
Plantilla(n, p, c) == [i \in 1..n |-> IF i = p THEN c ELSE DigitoDe(i)]

Cedulas ==
    {Plantilla(n, p, c) : n \in 0..MaxCedulaLen, p \in 0..MaxCedulaLen,
                          c \in Reemplazos}

Palabras == {<<"J">>, <<"P", "U+00F1">>}
Rellenos == {<<>>, <<" ">>, <<"\t", " ">>}
Separadores == {<<" ">>, <<" ", " ">>, <<"\n", "U+00A0">>}

Nombres ==
    [lead : Rellenos,
     toks : UNION {[1..n -> Palabras] : n \in 0..MaxPalabras},
     sep : Separadores,
     trail : Rellenos]

\* the words of toks in order, with sep between consecutive words
RECURSIVE Intercalar(_, _)
Intercalar(toks, sep) ==
    IF Len(toks) = 0 THEN <<>>
    ELSE IF Len(toks) = 1 THEN toks[1]
    ELSE Intercalar(SubSeq(toks, 1, Len(toks) - 1), sep) \o sep \o toks[Len(toks)]

\* the string the upstream sends for a name
Texto(nm) == nm.lead \o Intercalar(nm.toks, nm.sep) \o nm.trail

NombreVacio == [lead |-> <<>>, toks |-> <<>>, sep |-> <<" ">>, trail |-> <<>>]

(***************************************************************************)
(* The connections of the server.                                          *)
(***************************************************************************)
Conexiones == 1..NumConexiones

RutaConsultar == "/api/consultar"
RutaNombres == "/api/consultar-nombres"

\* an inbound request: json is what json.NewDecoder(r.Body).Decode finds in
\* the body, and cedula, nombres and apellidos are the fields of the object
\* in it (empty when absent)
Peticion(ruta, metodo, json, cedula, nombres, apellidos) ==
    [ruta |-> ruta, metodo |-> metodo, json |-> json, cedula |-> cedula,
     nombres |-> nombres, apellidos |-> apellidos]

SinPeticion == Peticion("", "", "", <<>>, <<>>, <<>>)
SinSitio == [tipo |-> "", status |-> 0, html |-> <<>>]
SinCabeceras == {}
SinSRI == [tipo |-> "", status |-> 0, json |-> "",
           denominacion |-> <<>>, nombreComercial |-> <<>>]

\* a response: the status and the JSON body; tipo names the Go value that
\* was encoded ("vacio" when no body was written) and the fields that this
\* value does not have are left empty
Respuesta(status, tipo, error, nombre, apellido) ==
    [status |-> status, tipo |-> tipo, error |-> error,
     nombre |-> nombre, apellido |-> apellido,
     cedula |-> <<>>, nombres |-> <<>>, apellidos |-> <<>>,
     mensaje |-> "", detalles |-> ""]

SinRespuesta == Respuesta(0, "", "", <<>>, <<>>)

RespuestaSoloEstado(status, error) == Respuesta(status, "vacio", "", <<>>, <<>>)

\* json.NewEncoder(w).Encode(ErrorResponse{Error: error}) after
\* w.WriteHeader(status)
RespuestaError(status, error) == Respuesta(status, "error", error, <<>>, <<>>)

Variantes == {"scraping", "informativa"}

ServidorInicial ==
    /\ sirviendo = TRUE
    /\ pc = [r \in Conexiones |-> "libre"]
    /\ sitio = [r \in Conexiones |-> SinSitio]
    /\ cabeceras = [r \in Conexiones |-> SinCabeceras]
    /\ escrituras = [r \in Conexiones |-> 0]
    /\ peticion = [r \in Conexiones |-> SinPeticion]
    /\ salientes = [r \in Conexiones |-> 0]
    /\ sri = [r \in Conexiones |-> SinSRI]
    /\ campo = [r \in Conexiones |-> ""]
    /\ respuesta = [r \in Conexiones |-> SinRespuesta]

\* the two forms of the page and their submit buttons
Formularios == {"cedula", "nombres"}

\* the results container: the panel drawn, its message and the identifier
\* it prints
SinVista == [panel |-> "", mensaje |-> "", cedula |-> <<>>]
SinSubmit == [tipo |-> "", efecto |-> ""]
\* what a fetch ended with: tipo "transporte" when the promise rejected,
\* "http" when it resolved with a response of this status and body
SinRecibido == [tipo |-> "", status |-> 0, cuerpo |-> "", data |-> SinRespuesta]

\* the page after script.js has run: isLoading false, nothing shown
ClienteInicial ==
    /\ isLoading = FALSE
    /\ deshabilitado = [f \in Formularios |-> FALSE]
    /\ enVuelo = <<>>
    /\ vista = SinVista
    /\ ultimo = SinSubmit
    /\ recibido = SinRecibido

(***************************************************************************)
(* The harness of validarCedula.                                           *)
(***************************************************************************)
InitValidar ==
    /\ cedulaIn \in Cedulas
    /\ validaOut = <<>>
    /\ nombreIn = NombreVacio
    /\ splitOut = <<>>
    /\ textoIn = <<>>
    /\ buscarOut = <<>>
    /\ frontOut = <<>>
    /\ collyOut = <<>>
    /\ formIn = <<>>
    /\ formOut = <<>>
    /\ variante = "scraping"
    /\ ServidorInicial
    /\ ClienteInicial

Validar ==
    /\ validaOut = <<>>
    /\ validaOut' = <<validarCedula(cedulaIn)>>
    /\ UNCHANGED <<cedulaIn, nombreIn, splitOut, textoIn, buscarOut,
                   frontOut, collyOut, formIn, formOut>>
    /\ UNCHANGED serverVars
    /\ UNCHANGED clienteVars

validarCedulaFrontendSinFin(cedula) ==
    /\ Len(cedula) >= LargoCedula
    /\ \A i \in 1..LargoCedula : cedula[i] \in Digitos

\* /^[0-9]{10}$/.test(cedula) of script.js: ten characters, each one of
\* 0 to 9, and nothing after them ($ without the m flag is the end of the
\* string). The pattern counts UTF-16 code units; every character of the
\* model is in the basic plane and is one unit.
validarCedulaFrontend(cedula) ==
    /\ Len(cedula) = LargoCedula
    /\ \A i \in 1..Len(cedula) : cedula[i] \in Digitos

ValidarFrontend ==
    /\ frontOut = <<>>
    /\ frontOut' = <<validarCedulaFrontend(cedulaIn)>>
    /\ UNCHANGED <<cedulaIn, validaOut, nombreIn, splitOut, textoIn, buscarOut,
                   collyOut, formIn, formOut>>
    /\ UNCHANGED serverVars
    /\ UNCHANGED clienteVars

SpecValidar == InitValidar /\ [][Validar \/ ValidarFrontend]_vars

(***************************************************************************)
(* The harness of the name split.                                          *)
(***************************************************************************)
InitSplit ==
    /\ cedulaIn = <<>>
    /\ validaOut = <<>>
    /\ nombreIn \in Nombres
    /\ splitOut = <<>>
    /\ textoIn = <<>>
    /\ buscarOut = <<>>
    /\ frontOut = <<>>
    /\ collyOut = <<>>
    /\ formIn = <<>>
    /\ formOut = <<>>
    /\ variante = "scraping"
    /\ ServidorInicial
    /\ ClienteInicial

Separar ==
    /\ splitOut = <<>>
    /\ splitOut' = <<NombreApellido(Texto(nombreIn))>>
    /\ UNCHANGED <<cedulaIn, validaOut, nombreIn, textoIn, buscarOut,
                   frontOut, collyOut, formIn, formOut>>
    /\ UNCHANGED serverVars
    /\ UNCHANGED clienteVars

\* the scraping variants split the same text, found in a table cell
SepararColly ==
    /\ collyOut = <<>>
    /\ collyOut' = <<NombreApellidoColly(Texto(nombreIn))>>
    /\ UNCHANGED <<cedulaIn, validaOut, nombreIn, splitOut, textoIn, buscarOut,
                   frontOut, formIn, formOut>>
    /\ UNCHANGED serverVars
    /\ UNCHANGED clienteVars

SpecSplit == InitSplit /\ [][Separar \/ SepararColly]_vars

(***************************************************************************)
(* /api/consultar: manejarConsulta runs up to the call of consultarCedula, *)
(* which blocks in client.Do; consultarCedula resumes with the answer of   *)
(* the upstream and responderConsulta writes the response.                 *)
(***************************************************************************)
ErrPeticion == "error al realizar la peticion"
ErrLectura == "error al leer la respuesta"
ErrNoEncontrada == "cedula no encontrada"
ErrProcesar == "error al procesar la respuesta del servidor"

\* the headers both handlers set before they look at the request
CabecerasCORS ==
    {<<"Access-Control-Allow-Origin", "*">>,
     <<"Access-Control-Allow-Methods", "POST">>,
     <<"Access-Control-Allow-Headers", "Content-Type">>,
     <<"Content-Type", "application/json">>}

CabecerasSoloPost(metodo) == IF metodo = "POST" THEN CabecerasCORS ELSE {}

Cabeceras(metodo) == CabecerasCORS

\* json.NewDecoder(r.Body).Decode(&req) returns an error: Decode reads the
\* first JSON value of the body and does not look at what follows it, so
\* an object followed by other data ("objetoConResto") decodes as the object
DecodeFalla(json) == json \notin {"objeto", "objetoConResto"}

\* the handler up to the outbound call, validation skipped
manejarConsultaSinValidar(metodo, json, cedula) ==
    IF metodo = "OPTIONS"
    THEN [accion |-> "responder", resp |-> Respuesta(200, "vacio", "", <<>>, <<>>)]
    ELSE IF metodo # "POST"
    THEN [accion |-> "responder", resp |-> RespuestaError(405, "Metodo no permitido")]
    ELSE IF DecodeFalla(json)
    THEN [accion |-> "responder", resp |-> RespuestaError(400, "JSON invalido")]
    ELSE [accion |-> "consultar", resp |-> SinRespuesta]

\* the handler up to the outbound call; cedula is req.Cedula
manejarConsulta(metodo, json, cedula) ==
    IF metodo = "OPTIONS"
    THEN [accion |-> "responder", resp |-> Respuesta(200, "vacio", "", <<>>, <<>>)]
    ELSE IF metodo # "POST"
    THEN [accion |-> "responder", resp |-> RespuestaError(405, "Metodo no permitido")]
    ELSE IF DecodeFalla(json)
    THEN [accion |-> "responder", resp |-> RespuestaError(400, "JSON invalido")]
    ELSE IF ~validarCedula(cedula)
    THEN [accion |-> "responder",
          resp |-> RespuestaError(400, "Cedula invalida. Debe contener exactamente 10 digitos")]
    ELSE [accion |-> "consultar", resp |-> SinRespuesta]

\* the payload field nombreCompleto is taken from ("" when from none)
CampoElegido(denominacion, nombreComercial) ==
    IF denominacion # <<>> THEN "denominacion"
    ELSE IF nombreComercial # <<>> THEN "nombreComercial"
    ELSE ""

SinNombreNunca(nombreCompleto) == FALSE

SinNombre(nombreCompleto) == nombreCompleto = <<>>

Resultado(err, cmp, partes) ==
    [err |-> err, campo |-> cmp, panic |-> partes.panic,
     nombre |-> partes.nombre, apellido |-> partes.apellido]

SinPartes == [panic |-> FALSE, nombre |-> <<>>, apellido |-> <<>>]

\* consultarCedula from the return of client.Do on: ans is what the upstream
\* answered; err = "" stands for a nil error. http.NewRequest cannot fail
\* here: the URL is a constant with the ten digits of a validated cedula.
consultarCedula(ans) ==
    IF ans.tipo = "errorRed" THEN Resultado(ErrPeticion, "", SinPartes)
    ELSE IF ans.tipo = "errorLectura" THEN Resultado(ErrLectura, "", SinPartes)
    ELSE IF ans.status # 200 THEN Resultado(ErrNoEncontrada, "", SinPartes)
    ELSE IF ans.json # "objeto" THEN Resultado(ErrProcesar, "", SinPartes)
    ELSE LET cmp == CampoElegido(ans.denominacion, ans.nombreComercial)
             nombreCompleto ==
                 IF cmp = "denominacion" THEN ans.denominacion
                 ELSE IF cmp = "nombreComercial" THEN ans.nombreComercial
                 ELSE <<>>
         IN  IF SinNombre(nombreCompleto)
             THEN Resultado(ErrNoEncontrada, cmp, SinPartes)
             ELSE Resultado("", cmp, NombreApellido(nombreCompleto))

ContieneNoEncontradaSiempre(err) == TRUE

\* strings.Contains(err.Error(), "no encontrada"), over the messages that
\* consultarCedula returns
ContieneNoEncontrada(err) == err = ErrNoEncontrada

\* the rest of the handler; a panic of the handler goroutine is recovered
\* by net/http, which drops the connection without a response
responderConsulta(resultado) ==
    IF resultado.panic THEN Respuesta(0, "panic", "", <<>>, <<>>)
    ELSE IF resultado.err # ""
    THEN IF ContieneNoEncontrada(resultado.err)
         THEN RespuestaError(404, "Cedula no encontrada")
         ELSE RespuestaError(500, "Error interno del servidor al consultar")
    ELSE Respuesta(200, "cedula", "", resultado.nombre, resultado.apellido)

(***************************************************************************)
(* The search of a cedula in the page of the name-lookup site:             *)
(* regexp.MustCompile(`\b\d{10}\b`).FindString(bodyStr).                   *)
(***************************************************************************)
LetrasASCII ==
    {"a", "b", "c", "d", "e", "f", "g", "h", "i", "j", "k", "l", "m",
     "n", "o", "p", "q", "r", "s", "t", "u", "v", "w", "x", "y", "z",
     "A", "B", "C", "D", "E", "F", "G", "H", "I", "J", "K", "L", "M",
     "N", "O", "P", "Q", "R", "S", "T", "U", "V", "W", "X", "Y", "Z"}

\* \w of Go's regexp: an ASCII letter, an ASCII digit or the underscore
EsPalabra(c) == c \in LetrasASCII \cup Digitos \cup {"_"}

\* \b at position p, between s[p-1] and s[p]: a word character on exactly
\* one side; the start and the end of the text count as non-word
LimitePalabra(s, p) ==
    (p > 1 /\ EsPalabra(s[p - 1])) # (p <= Len(s) /\ EsPalabra(s[p]))

CoincideEnSinLimites(s, i) ==
    /\ i + LargoCedula - 1 <= Len(s)
    /\ \A k \in i..(i + LargoCedula - 1) : s[k] \in Digitos

\* the pattern matches the ten characters that start at position i
CoincideEn(s, i) ==
    /\ i + LargoCedula - 1 <= Len(s)
    /\ \A k \in i..(i + LargoCedula - 1) : s[k] \in Digitos
    /\ LimitePalabra(s, i)
    /\ LimitePalabra(s, i + LargoCedula)

\* FindString: the leftmost match, "" when there is none
FindCedula(s) ==
    LET inicios == {i \in 1..Len(s) : CoincideEn(s, i)}
    IN  IF inicios = {} THEN <<>>
        ELSE LET i == CHOOSE j \in inicios : \A k \in inicios : j <= k
             IN  SubSeq(s, i, i + LargoCedula - 1)

(***************************************************************************)
(* /api/consultar-nombres: manejarConsultaPorNombres runs up to the call   *)
(* of consultarPorNombres; in the scraping variant that call blocks in     *)
(* client.Do and resumes with the page of the site, in the informational   *)
(* variant it sends nothing and always returns an error.                   *)
(***************************************************************************)
ErrNoInfo == "no se encontro informacion para los nombres proporcionados"
ErrAlternativas == "consulta por nombres no disponible a traves de APIs publicas gratuitas"

\* the handler up to the call of consultarPorNombres
manejarConsultaPorNombres(metodo, json, nombres, apellidos) ==
    IF metodo = "OPTIONS"
    THEN [accion |-> "responder", resp |-> Respuesta(200, "vacio", "", <<>>, <<>>)]
    ELSE IF metodo # "POST"
    THEN [accion |-> "responder", resp |-> RespuestaError(405, "Metodo no permitido")]
    ELSE IF DecodeFalla(json)
    THEN [accion |-> "responder", resp |-> RespuestaError(400, "JSON invalido")]
    ELSE IF TrimSpace(nombres) = <<>> \/ TrimSpace(apellidos) = <<>>
    THEN [accion |-> "responder",
          resp |-> RespuestaError(400, "Se requieren nombres y apellidos")]
    ELSE [accion |-> "consultar", resp |-> SinRespuesta]

ResultadoNombres(err, cedula, nombres, apellidos) ==
    [err |-> err, cedula |-> cedula, nombres |-> nombres, apellidos |-> apellidos]

\* consultarPorNombres of the scraping variant from the return of client.Do
\* on; the status of the answer is not looked at
consultarPorNombres(ans, nombres, apellidos) ==
    IF ans.tipo = "errorRed" THEN ResultadoNombres(ErrPeticion, <<>>, <<>>, <<>>)
    ELSE IF ans.tipo = "errorLectura" THEN ResultadoNombres(ErrLectura, <<>>, <<>>, <<>>)
    ELSE LET cedulaEncontrada == FindCedula(ans.html)
         IN  IF cedulaEncontrada = <<>>
             THEN ResultadoNombres(ErrNoInfo, <<>>, <<>>, <<>>)
             ELSE ResultadoNombres("", cedulaEncontrada, nombres, apellidos)

\* consultarPorNombres of the informational variant: after the sleep it
\* returns the error that lists the alternatives
consultarPorNombresInformativa(nombres, apellidos) ==
    ResultadoNombres(ErrAlternativas, <<>>, <<>>, <<>>)

\* strings.Contains(err.Error(), "no se encontro informacion"), over the
\* messages that consultarPorNombres returns
ContieneNoInfo(err) == err = ErrNoInfo

RespuestaNombres(resultado) ==
    [Respuesta(200, "nombres", "", <<>>, <<>>) EXCEPT
        !.cedula = resultado.cedula, !.nombres = resultado.nombres,
        !.apellidos = resultado.apellidos]

\* the rest of the handler, scraping variant
responderNombres(resultado) ==
    IF resultado.err # ""
    THEN IF ContieneNoInfo(resultado.err)
         THEN RespuestaError(404, "No se encontro informacion para los nombres proporcionados")
         ELSE RespuestaError(500, "Error interno del servidor al consultar")
    ELSE RespuestaNombres(resultado)

responderNombresComoError(resultado, nombres, apellidos) ==
    RespuestaError(500, "Error interno del servidor al consultar")

\* the rest of the handler, informational variant: the error of the lookup
\* is answered 200 with a map of success, nombres, apellidos, message,
\* alternatives_info and error_details
responderNombresInformativa(resultado, nombres, apellidos) ==
    IF resultado.err # ""
    THEN [Respuesta(200, "informativa", "", <<>>, <<>>) EXCEPT
            !.nombres = nombres, !.apellidos = apellidos,
            !.mensaje = "Consulta por nombres no disponible a traves de APIs publicas gratuitas",
            !.detalles = resultado.err]
    ELSE RespuestaNombres(resultado)

(***************************************************************************)
(* What a handler does besides responding.                                 *)
(***************************************************************************)
EsFatalSiError(resp) == resp.status = 500

\* writing resp ends the process: no branch of the handlers exits, and a
\* panic of a handler is recovered by net/http; log.Fatal is reached only
\* when ListenAndServe fails in main
EsFatal(resp) == FALSE

ReintentarSiError(resultado) == resultado.err \in {ErrPeticion, ErrLectura}

\* the lookup is sent again: client.Do is called once, in no loop
Reintentar(resultado) == FALSE

RecibidaCompartida(r, ans, otras) ==
    IF \E q \in Conexiones : q # r /\ otras[q].tipo # ""
    THEN otras[CHOOSE q \in Conexiones : q # r /\ otras[q].tipo # ""]
    ELSE ans

\* the answer the handler of connection r works on: resp and body are
\* local variables of the call, so it is the answer to its own request,
\* whatever the other connections received (otras)
Recibida(r, ans, otras) == ans

(***************************************************************************)
(* Inputs of the server.                                                   *)
(***************************************************************************)
Metodos == {"POST", "OPTIONS", "GET"}

CedulasPeticion ==
    {Plantilla(0, 0, "a"), Plantilla(3, 0, "a"), Plantilla(10, 0, "a"),
     Plantilla(10, 10, "\n"), Plantilla(10, 5, "a"), Plantilla(11, 0, "a"),
     Plantilla(9, 9, "U+00F1")}

\* requests to /api/consultar: a POST of an object with each cedula, each
\* method with a body that is not JSON, a POST of an object followed by
\* other data, and the other methods with a well-formed body
PeticionesConsultar ==
    {Peticion(RutaConsultar, "POST", "objeto", c, <<>>, <<>>) : c \in CedulasPeticion}
    \cup {Peticion(RutaConsultar, m, "malformado", <<>>, <<>>, <<>>) : m \in Metodos}
    \cup {Peticion(RutaConsultar, "POST", "objetoConResto", Plantilla(3, 0, "a"), <<>>, <<>>)}
    \cup {Peticion(RutaConsultar, m, "objeto", Plantilla(10, 0, "a"), <<>>, <<>>) :
            m \in Metodos \ {"POST"}}

\* values of the fields nombres and apellidos: absent or empty, blank, given
CamposNombre == {<<>>, <<" ", "\t">>, <<"J", " ", "P">>}

PeticionesNombres ==
    {Peticion(RutaNombres, "POST", "objeto", <<>>, n, a) :
        n \in CamposNombre, a \in CamposNombre}
    \cup {Peticion(RutaNombres, m, "malformado", <<>>, <<>>, <<>>) :
            m \in {"POST", "OPTIONS"}}
    \cup {Peticion(RutaNombres, "POST", "objetoConResto", <<>>, <<"J">>, <<"P">>)}
    \cup {Peticion(RutaNombres, m, "objeto", <<>>, <<"J">>, <<"P">>) :
            m \in Metodos \ {"POST"}}

CamposSRI ==
    {<<>>, <<" ">>, <<"J">>, <<"J", " ", "P">>,
     <<"P", " ", " ", "J", " ", "P", " ", "J">>}

\* values of nombreComercial: absent or empty, blank, a name
CamposComercial == {<<>>, <<" ">>, <<"J", " ", "P">>}

\* answers of the tax registry: a failure of the call, a failure of the
\* read, a 404 with an object, a 500 with a body that does not parse, and
\* a 200 with a body that does not parse or with each pair of name fields
RespuestasSRI ==
    {[SinSRI EXCEPT !.tipo = t] : t \in {"errorRed", "errorLectura"}}
    \cup {[SinSRI EXCEPT !.tipo = "http", !.status = 404, !.json = "objeto"],
          [SinSRI EXCEPT !.tipo = "http", !.status = 500, !.json = "malformado"],
          [SinSRI EXCEPT !.tipo = "http", !.status = 200, !.json = "malformado"]}
    \cup {[tipo |-> "http", status |-> 200, json |-> "objeto",
           denominacion |-> d, nombreComercial |-> n] :
             d \in CamposSRI, n \in CamposComercial}

\* n digits, 1234567890...
Corrida(n) == [i \in 1..n |-> DigitoDe(i)]

\* pages of the name-lookup site: without digits, with a cedula between
\* tags, with ten digits that follow a letter
Paginas ==
    {<<"<", "p", ">">>,
     <<">">> \o Corrida(LargoCedula) \o <<"<">>,
     <<"a">> \o Corrida(LargoCedula)}

\* answers of the site: a failure of the call, a failure of the read, a
\* 200 with each page, and a 500 whose page holds a cedula
RespuestasSitio ==
    {[SinSitio EXCEPT !.tipo = t] : t \in {"errorRed", "errorLectura"}}
    \cup {[tipo |-> "http", status |-> 200, html |-> h] : h \in Paginas}
    \cup {[tipo |-> "http", status |-> 500,
           html |-> <<">">> \o Corrida(LargoCedula) \o <<"<">>]}

(***************************************************************************)
(* Actions of the server.                                                  *)
(***************************************************************************)
Init ==
    /\ cedulaIn = <<>>
    /\ validaOut = <<>>
    /\ nombreIn = NombreVacio
    /\ splitOut = <<>>
    /\ textoIn = <<>>
    /\ buscarOut = <<>>
    /\ frontOut = <<>>
    /\ collyOut = <<>>
    /\ formIn = <<>>
    /\ formOut = <<>>
    /\ variante \in Variantes
    /\ ServidorInicial
    /\ ClienteInicial

EscriturasDeDoble(resp) == IF resp.status = 405 THEN 2 ELSE 1

\* calls of w.WriteHeader on the path that writes resp: every branch of
\* the handlers calls it once and returns; a handler that panics before it
\* has written calls it never
EscriturasDe(resp) == IF resp.tipo = "panic" THEN 0 ELSE 1

\* the handler of connection r writes resp and returns
Responder(r, resp) ==
    /\ pc' = [pc EXCEPT ![r] = "respondida"]
    /\ respuesta' = [respuesta EXCEPT ![r] = resp]
    /\ escrituras' = [escrituras EXCEPT ![r] = @ + EscriturasDe(resp)]
    /\ sirviendo' = ~EsFatal(resp)

\* the handler of connection r blocks in client.Do
Enviar(r) ==
    /\ pc' = [pc EXCEPT ![r] = "esperando"]
    /\ salientes' = [salientes EXCEPT ![r] = @ + 1]
    /\ UNCHANGED <<respuesta, escrituras, sirviendo>>

\* a request to /api/consultar arrives on connection r and the handler runs
\* until it has responded or has sent the outbound GET
ManejarConsulta(r) ==
    /\ sirviendo
    /\ pc[r] = "libre"
    /\ \E p \in PeticionesConsultar :
        LET paso == manejarConsulta(p.metodo, p.json, p.cedula)
        IN  /\ peticion' = [peticion EXCEPT ![r] = p]
            /\ cabeceras' = [cabeceras EXCEPT ![r] = Cabeceras(p.metodo)]
            /\ IF paso.accion = "responder"
               THEN Responder(r, paso.resp) /\ UNCHANGED salientes
               ELSE Enviar(r)
    /\ UNCHANGED <<variante, sri, sitio, campo>>
    /\ UNCHANGED harnessVars
    /\ UNCHANGED clienteVars

\* client.Do returns on connection r; the handler finishes
ConsultarCedula(r) ==
    /\ sirviendo
    /\ pc[r] = "esperando"
    /\ peticion[r].ruta = RutaConsultar
    /\ \E ans \in RespuestasSRI :
        LET resultado == consultarCedula(Recibida(r, ans, sri))
        IN  /\ sri' = [sri EXCEPT ![r] = ans]
            /\ IF Reintentar(resultado)
               THEN Enviar(r) /\ UNCHANGED campo
               ELSE /\ campo' = [campo EXCEPT ![r] = resultado.campo]
                    /\ Responder(r, responderConsulta(resultado))
                    /\ UNCHANGED salientes
    /\ UNCHANGED <<variante, peticion, sitio, cabeceras>>
    /\ UNCHANGED harnessVars
    /\ UNCHANGED clienteVars

\* a request to /api/consultar-nombres arrives on connection r and the
\* handler runs until it has responded or has sent the outbound POST; the
\* informational variant sends nothing and responds after its sleep
ManejarConsultaPorNombres(r) ==
    /\ sirviendo
    /\ pc[r] = "libre"
    /\ \E p \in PeticionesNombres :
        LET paso == manejarConsultaPorNombres(p.metodo, p.json, p.nombres, p.apellidos)
        IN  /\ peticion' = [peticion EXCEPT ![r] = p]
            /\ cabeceras' = [cabeceras EXCEPT ![r] = Cabeceras(p.metodo)]
            /\ IF paso.accion = "responder"
               THEN Responder(r, paso.resp) /\ UNCHANGED salientes
               ELSE IF variante = "informativa"
               THEN /\ Responder(r, responderNombresInformativa(
                           consultarPorNombresInformativa(p.nombres, p.apellidos),
                           p.nombres, p.apellidos))
                    /\ UNCHANGED salientes
               ELSE Enviar(r)
    /\ UNCHANGED <<variante, sri, sitio, campo>>
    /\ UNCHANGED harnessVars
    /\ UNCHANGED clienteVars

\* client.Do returns on connection r in consultarPorNombres; the handler
\* finishes
ConsultarPorNombres(r) ==
    /\ sirviendo
    /\ pc[r] = "esperando"
    /\ peticion[r].ruta = RutaNombres
    /\ \E ans \in RespuestasSitio :
        LET resultado == consultarPorNombres(Recibida(r, ans, sitio),
                                             peticion[r].nombres, peticion[r].apellidos)
        IN  /\ sitio' = [sitio EXCEPT ![r] = ans]
            /\ IF Reintentar(resultado)
               THEN Enviar(r)
               ELSE Responder(r, responderNombres(resultado)) /\ UNCHANGED salientes
    /\ UNCHANGED <<variante, peticion, sri, campo, cabeceras>>
    /\ UNCHANGED harnessVars
    /\ UNCHANGED clienteVars

\* the exchange on connection r is over; nothing of it is kept
Cerrar(r) ==
    /\ sirviendo
    /\ pc[r] = "respondida"
    /\ pc' = [pc EXCEPT ![r] = "libre"]
    /\ peticion' = [peticion EXCEPT ![r] = SinPeticion]
    /\ salientes' = [salientes EXCEPT ![r] = 0]
    /\ sri' = [sri EXCEPT ![r] = SinSRI]
    /\ sitio' = [sitio EXCEPT ![r] = SinSitio]
    /\ campo' = [campo EXCEPT ![r] = ""]
    /\ cabeceras' = [cabeceras EXCEPT ![r] = SinCabeceras]
    /\ escrituras' = [escrituras EXCEPT ![r] = 0]
    /\ respuesta' = [respuesta EXCEPT ![r] = SinRespuesta]
    /\ UNCHANGED <<variante, sirviendo>>
    /\ UNCHANGED harnessVars
    /\ UNCHANGED clienteVars

Next ==
    \E r \in Conexiones :
        \/ ManejarConsulta(r)
        \/ ConsultarCedula(r)
        \/ ManejarConsultaPorNombres(r)
        \/ ConsultarPorNombres(r)
        \/ Cerrar(r)

Spec == Init /\ [][Next]_vars

\* client.Do returns: the http.Client of both lookups has a Timeout of 30
\* seconds, so a pending call ends with an answer or with an error
SpecJusto ==
    /\ Init
    /\ [][Next]_vars
    /\ \A r \in Conexiones :
        WF_vars(ConsultarCedula(r)) /\ WF_vars(ConsultarPorNombres(r))

(***************************************************************************)
(* The page: script.js, and the server it talks to.                        *)
(***************************************************************************)
\* the response to request p when it is served alone and its outbound
\* call, if it makes one, is answered ansSRI or ansSitio
Sola(p, ansSRI, ansSitio) ==
    IF p.ruta = RutaConsultar
    THEN LET paso == manejarConsulta(p.metodo, p.json, p.cedula)
         IN  IF paso.accion = "responder" THEN paso.resp
             ELSE responderConsulta(consultarCedula(ansSRI))
    ELSE LET paso == manejarConsultaPorNombres(p.metodo, p.json, p.nombres, p.apellidos)
         IN  IF paso.accion = "responder" THEN paso.resp
             ELSE IF variante = "informativa"
             THEN responderNombresInformativa(
                      consultarPorNombresInformativa(p.nombres, p.apellidos),
                      p.nombres, p.apellidos)
             ELSE responderNombres(consultarPorNombres(ansSitio, p.nombres, p.apellidos))

\* WhiteSpace and LineTerminator of ECMAScript, which String.prototype.trim
\* strips and \s matches; U+0085 is neither
EsBlancoJS(c) == c \in {"\t", "\n", "U+000B", "\f", "\r", " ", "U+00A0"}

\* value.trim()
Trim(s) ==
    LET dentro == {i \in 1..Len(s) : ~EsBlancoJS(s[i])}
    IN  IF dentro = {} THEN <<>>
        ELSE SubSeq(s, CHOOSE i \in dentro : \A j \in dentro : i <= j,
                       CHOOSE i \in dentro : \A j \in dentro : j <= i)

\* the class of regexNombres: A-Z, a-z, U+00C0 to U+00FF, and \s
EnRegexNombres(c) ==
    \/ c \in LetrasASCII
    \/ c \in {"U+00F1", "U+00D1"}
    \/ EsBlancoJS(c)

\* validarNombresFrontend: both strings have two UTF-16 units or more and
\* only characters of the class; every character of the model is one unit
validarNombresFrontend(nombres, apellidos) ==
    /\ Len(nombres) >= 2
    /\ Len(apellidos) >= 2
    /\ \A i \in 1..Len(nombres) : EnRegexNombres(nombres[i])
    /\ \A i \in 1..Len(apellidos) : EnRegexNombres(apellidos[i])

\* the texts the page shows, without their pictograms
MsgCedulaInvalida == "Por favor, ingresa un numero de cedula valido de 10 digitos."
MsgNombresInvalidos == "Por favor, ingresa nombres y apellidos validos."
MsgNoEncontrada == "Cedula no encontrada en los registros publicos."
MsgValidacion == "Error de validacion"
MsgInterno == "Error interno del servidor. Intentalo nuevamente mas tarde."
MsgInesperado == "Error inesperado"
MsgConexion == "Error de conexion. Verifica tu conexion a internet e intentalo nuevamente."

mostrarError(mensaje) == [panel |-> "error", mensaje |-> mensaje, cedula |-> <<>>]

\* the panel prints the cedula that was sent
mostrarExitoCedula(data, cedula) ==
    [panel |-> "exitoCedula", mensaje |-> "Consulta Exitosa", cedula |-> cedula]

\* the panel prints data.cedula, whatever the body holds under that key
mostrarExitoNombres(data) ==
    [panel |-> "exitoNombres", mensaje |-> "Cedula Encontrada", cedula |-> data.cedula]

mostrarAlternativasLegales(nombres, apellidos) ==
    [panel |-> "alternativas", mensaje |-> "Alternativas Legales Disponibles",
     cedula |-> <<>>]

\* a lookup that was started: what was sent, whether it waits for fetch or
\* for response.json(), and the response once fetch has resolved
Consulta(tipo, cedula, nombres, apellidos) ==
    [tipo |-> tipo, fase |-> "fetch", cedula |-> cedula,
     nombres |-> nombres, apellidos |-> apellidos, response |-> SinRecibido]

\* fetch rejects: no response at all
Transporte == [SinRecibido EXCEPT !.tipo = "transporte"]

\* the response the browser gets when the server wrote resp
HttpDe(resp) ==
    [tipo |-> "http", status |-> resp.status,
     cuerpo |-> IF resp.tipo = "vacio" THEN "vacio" ELSE "json",
     data |-> resp]

\* responses that were not written by the handlers: the error page of a
\* gateway, a 200 whose body is not JSON, and a JSON error of another status
RespuestasAjenas ==
    {[tipo |-> "http", status |-> 502, cuerpo |-> "html", data |-> SinRespuesta],
     [tipo |-> "http", status |-> 200, cuerpo |-> "html", data |-> SinRespuesta],
     HttpDe(RespuestaError(405, "metodo"))}

\* what fetch can resolve with for the lookup c: the answers of the server
\* of this deployment to the request the page sent, and the others
RespuestasPara(c) ==
    RespuestasAjenas \cup
    IF c.tipo = "cedula"
    THEN {HttpDe(Sola(Peticion(RutaConsultar, "POST", "objeto", c.cedula, <<>>, <<>>),
                      a, SinSitio)) : a \in RespuestasSRI}
    ELSE {HttpDe(Sola(Peticion(RutaNombres, "POST", "objeto", <<>>,
                               c.nombres, c.apellidos),
                      SinSRI, a)) : a \in RespuestasSitio}

\* response.ok
Ok(response) == response.status \in 200..299

\* the branches of consultarCedula after response.json() has resolved
presentarCedula(response, cedula) ==
    IF Ok(response) THEN mostrarExitoCedula(response.data, cedula)
    ELSE IF response.status = 404 THEN mostrarError(MsgNoEncontrada)
    ELSE IF response.status = 400 THEN mostrarError(MsgValidacion)
    ELSE IF response.status = 500 THEN mostrarError(MsgInterno)
    ELSE mostrarError(MsgInesperado)

\* the branches of consultarPorNombres after response.json() has resolved
presentarNombres(response, nombres, apellidos) ==
    IF Ok(response) THEN mostrarExitoNombres(response.data)
    ELSE IF response.status = 404 THEN mostrarAlternativasLegales(nombres, apellidos)
    ELSE IF response.status = 400 THEN mostrarError(MsgValidacion)
    ELSE IF response.status = 500 THEN mostrarAlternativasLegales(nombres, apellidos)
    ELSE mostrarError(MsgInesperado)

BloqueadoNunca(cargando) == FALSE

\* if (isLoading) return; at the top of both submit listeners
Bloqueado(cargando) == cargando

EnFinallySoloTry(camino) == camino = "try"

\* the finally block runs after the try block and after the catch block
EnFinally(camino) == camino \in {"try", "catch"}

\* values of the cedula input: empty, too short, ten digits, ten digits
\* between blanks
ValoresCedula ==
    {<<>>, Plantilla(3, 0, "a"), Plantilla(LargoCedula, 0, "a"),
     <<" ">> \o Plantilla(LargoCedula, 0, "a") \o <<"\n">>}

\* values of the inputs of names: one letter, a digit, a name, a name
\* between blanks
ValoresNombre == {<<"J">>, <<"J", "1">>, <<"J", "o">>, <<" ", "J", "o", " ">>}

InitCliente ==
    /\ cedulaIn = <<>>
    /\ validaOut = <<>>
    /\ nombreIn = NombreVacio
    /\ splitOut = <<>>
    /\ textoIn = <<>>
    /\ buscarOut = <<>>
    /\ frontOut = <<>>
    /\ collyOut = <<>>
    /\ formIn = <<>>
    /\ formOut = <<>>
    /\ variante \in Variantes
    /\ ServidorInicial
    /\ ClienteInicial

\* mostrarCarga(true, tipo) and the call of fetch
Iniciar(c) ==
    /\ Len(enVuelo) < MaxEnVuelo
    /\ isLoading' = TRUE
    /\ deshabilitado' = [deshabilitado EXCEPT ![c.tipo] = TRUE]
    /\ enVuelo' = Append(enVuelo, c)
    /\ ultimo' = [tipo |-> c.tipo, efecto |-> "enviado"]
    /\ UNCHANGED <<vista, recibido>>

\* the submit event of the form of the cedula, up to the first await
SubmitCedula(valor) ==
    /\ IF Bloqueado(isLoading)
       THEN /\ ultimo' = [tipo |-> "cedula", efecto |-> "ignorado"]
            /\ UNCHANGED <<isLoading, deshabilitado, enVuelo, vista, recibido>>
       ELSE IF ~validarCedulaFrontend(Trim(valor))
       THEN /\ vista' = mostrarError(MsgCedulaInvalida)
            /\ ultimo' = [tipo |-> "cedula", efecto |-> "rechazado"]
            /\ UNCHANGED <<isLoading, deshabilitado, enVuelo, recibido>>
       ELSE Iniciar(Consulta("cedula", Trim(valor), <<>>, <<>>))
    /\ UNCHANGED harnessVars
    /\ UNCHANGED serverVars

\* the submit event of the form of the names, up to the first await
SubmitNombres(valorNombres, valorApellidos) ==
    /\ IF Bloqueado(isLoading)
       THEN /\ ultimo' = [tipo |-> "nombres", efecto |-> "ignorado"]
            /\ UNCHANGED <<isLoading, deshabilitado, enVuelo, vista, recibido>>
       ELSE IF ~validarNombresFrontend(Trim(valorNombres), Trim(valorApellidos))
       THEN /\ vista' = mostrarError(MsgNombresInvalidos)
            /\ ultimo' = [tipo |-> "nombres", efecto |-> "rechazado"]
            /\ UNCHANGED <<isLoading, deshabilitado, enVuelo, recibido>>
       ELSE Iniciar(Consulta("nombres", <<>>, Trim(valorNombres), Trim(valorApellidos)))
    /\ UNCHANGED harnessVars
    /\ UNCHANGED serverVars

\* the rest of the lookup at position i: the view drawn on the path taken
\* (the try block to its end, or the catch block), then the finally block
\* with mostrarCarga(false, tipo)
Terminar(i, camino, panel, fin) ==
    /\ vista' = panel
    /\ recibido' = fin
    /\ enVuelo' = [j \in 1..(Len(enVuelo) - 1) |->
                     IF j < i THEN enVuelo[j] ELSE enVuelo[j + 1]]
    /\ IF EnFinally(camino)
       THEN /\ isLoading' = FALSE
            /\ deshabilitado' = [deshabilitado EXCEPT ![enVuelo[i].tipo] = FALSE]
       ELSE UNCHANGED <<isLoading, deshabilitado>>
    /\ UNCHANGED ultimo

\* the promise of fetch rejects: the catch block
FetchRechaza(i) ==
    /\ i \in 1..Len(enVuelo)
    /\ enVuelo[i].fase = "fetch"
    /\ Terminar(i, "catch", mostrarError(MsgConexion), Transporte)
    /\ UNCHANGED harnessVars
    /\ UNCHANGED serverVars

\* the promise of fetch resolves with a response: response.json() is called
FetchResuelve(i) ==
    /\ i \in 1..Len(enVuelo)
    /\ enVuelo[i].fase = "fetch"
    /\ \E response \in RespuestasPara(enVuelo[i]) :
         enVuelo' = [enVuelo EXCEPT ![i].fase = "json", ![i].response = response]
    /\ UNCHANGED <<isLoading, deshabilitado, vista, ultimo, recibido>>
    /\ UNCHANGED harnessVars
    /\ UNCHANGED serverVars

\* the promise of response.json() settles: it rejects when the body is not
\* JSON, which the catch block handles; otherwise the branches on the status
JsonTermina(i) ==
    /\ i \in 1..Len(enVuelo)
    /\ enVuelo[i].fase = "json"
    /\ LET c == enVuelo[i]
       IN  IF c.response.cuerpo # "json"
           THEN Terminar(i, "catch", mostrarError(MsgConexion), c.response)
           ELSE Terminar(i, "try",
                         IF c.tipo = "cedula"
                         THEN presentarCedula(c.response, c.cedula)
                         ELSE presentarNombres(c.response, c.nombres, c.apellidos),
                         c.response)
    /\ UNCHANGED harnessVars
    /\ UNCHANGED serverVars

NextCliente ==
    \/ \E v \in ValoresCedula : SubmitCedula(v)
    \/ \E n \in ValoresNombre, a \in ValoresNombre : SubmitNombres(n, a)
    \/ \E i \in 1..MaxEnVuelo : FetchRechaza(i)
    \/ \E i \in 1..MaxEnVuelo : FetchResuelve(i)
    \/ \E i \in 1..MaxEnVuelo : JsonTermina(i)

SpecCliente == InitCliente /\ [][NextCliente]_vars

\* a promise that is pending settles: fetch ends with a response or with a
\* network error, and response.json() ends when the body has been read or
\* the connection has broken
SpecClienteJusto ==
    /\ InitCliente
    /\ [][NextCliente]_vars
    /\ \A i \in 1..MaxEnVuelo :
         /\ WF_vars(FetchRechaza(i) \/ FetchResuelve(i))
         /\ WF_vars(JsonTermina(i))

(***************************************************************************)
(* The harness of the search of a cedula in a page.                        *)
(***************************************************************************)
\* what stands next to a run of digits: nothing, letters, the underscore,
\* a space, a tag, a two-byte letter, a hyphen
Bordes == {<<>>, <<"a">>, <<"Z">>, <<"_">>, <<" ">>, <<"<">>, <<"U+00F1">>, <<"-">>}

\* ten other digits after a space
OtraCedula == <<" ", "0", "9", "8", "7", "6", "5", "4", "3", "2", "1">>

Textos ==
    [pre : Bordes, n : 0..MaxCorrida, post : Bordes, cola : {<<>>, OtraCedula}]

\* the page: pre, a run of n digits, post, cola
Pagina(t) == t.pre \o Corrida(t.n) \o t.post \o t.cola

InitBuscar ==
    /\ cedulaIn = <<>>
    /\ validaOut = <<>>
    /\ nombreIn = NombreVacio
    /\ splitOut = <<>>
    /\ textoIn \in Textos
    /\ buscarOut = <<>>
    /\ frontOut = <<>>
    /\ collyOut = <<>>
    /\ formIn = <<>>
    /\ formOut = <<>>
    /\ variante = "scraping"
    /\ ServidorInicial
    /\ ClienteInicial

\* the site answers 200 with the page; the lookup and the handler finish
Buscar ==
    /\ buscarOut = <<>>
    /\ buscarOut' = <<responderNombres(consultarPorNombres(
                        [tipo |-> "http", status |-> 200, html |-> Pagina(textoIn)],
                        <<"J">>, <<"P">>))>>
    /\ UNCHANGED <<cedulaIn, validaOut, nombreIn, splitOut, textoIn,
                   frontOut, collyOut, formIn, formOut>>
    /\ UNCHANGED serverVars
    /\ UNCHANGED clienteVars

SpecBuscar == InitBuscar /\ [][Buscar]_vars

(***************************************************************************)
(* The harness of the form sent to the name-lookup site: the handler       *)
(* accepts the names and consultarPorNombres builds the body of the POST.  *)
(***************************************************************************)
\* strings.ReplaceAll(s, " ", "+")
ReplaceAll(s) == [i \in 1..Len(s) |-> IF s[i] = " " THEN "+" ELSE s[i]]

ClaveNombres == <<"n", "o", "m", "b", "r", "e", "s">>
ClaveApellidos == <<"a", "p", "e", "l", "l", "i", "d", "o", "s">>

\* fmt.Sprintf("nombres=%s&apellidos=%s", ...)
FormData(nombres, apellidos) ==
    ClaveNombres \o <<"=">> \o ReplaceAll(nombres)
        \o <<"&">> \o ClaveApellidos \o <<"=">> \o ReplaceAll(apellidos)

\* characters of a name field: a letter, the space and the characters
\* that have a meaning in a form body
LetrasCampo == {"J", " ", "&", "=", "+"}

CamposForm == UNION {[1..n -> LetrasCampo] : n \in 0..MaxCampo}

InitFormulario ==
    /\ cedulaIn = <<>>
    /\ validaOut = <<>>
    /\ nombreIn = NombreVacio
    /\ splitOut = <<>>
    /\ textoIn = <<>>
    /\ buscarOut = <<>>
    /\ frontOut = <<>>
    /\ collyOut = <<>>
    /\ formIn \in [nombres : CamposForm, apellidos : CamposForm]
    /\ formOut = <<>>
    /\ variante = "scraping"
    /\ ServidorInicial
    /\ ClienteInicial

\* a POST of an object with the two names: the handler validates them and,
\* when it accepts them, the lookup builds the body it sends
Codificar ==
    /\ formOut = <<>>
    /\ LET paso == manejarConsultaPorNombres("POST", "objeto",
                                             formIn.nombres, formIn.apellidos)
       IN  formOut' = <<IF paso.accion = "consultar"
                        THEN [enviado |-> TRUE,
                              cuerpo |-> FormData(formIn.nombres, formIn.apellidos)]
                        ELSE [enviado |-> FALSE, cuerpo |-> <<>>]>>
    /\ UNCHANGED <<cedulaIn, validaOut, nombreIn, splitOut, textoIn, buscarOut,
                   frontOut, collyOut, formIn>>
    /\ UNCHANGED serverVars
    /\ UNCHANGED clienteVars

SpecFormulario == InitFormulario /\ [][Codificar]_vars

(***************************************************************************)
(* Properties of validarCedula (checked under SpecValidar).                *)
(***************************************************************************)
EsDiezDigitosASCII(s) ==
    /\ Len(s) = 10
    /\ \A i \in 1..Len(s) : s[i] \in {"0", "1", "2", "3", "4", "5", "6", "7", "8", "9"}

\* C1: validarCedula returns true exactly for the strings of ten characters
\* that are all ASCII decimal digits, and false for every other string
C1_ValidarCedula ==
    validaOut # <<>> => (validaOut[1] <=> EsDiezDigitosASCII(cedulaIn))

\* accepted although 92 is no province code and the check digit is wrong
C1_Witness ==
    /\ validaOut = <<TRUE>>
    /\ SubSeq(cedulaIn, 1, 2) = <<"9", "2">>
    /\ Len(cedulaIn) = 10

(***************************************************************************)
(* Properties of the name split (checked under SpecSplit).                 *)
(***************************************************************************)
NumPalabras == Len(nombreIn.toks)
UnEspacio(toks) == Intercalar(toks, <<" ">>)

\* C2: with four or more words the given name is the first floor(n/2) words
\* and the surname the remaining ones, each joined by single spaces
C2_CuatroOMas ==
    (splitOut # <<>> /\ NumPalabras >= 4) =>
        LET mid == NumPalabras \div 2
        IN  /\ splitOut[1].nombre = UnEspacio(SubSeq(nombreIn.toks, 1, mid))
            /\ splitOut[1].apellido =
                   UnEspacio(SubSeq(nombreIn.toks, mid + 1, NumPalabras))

C2_Witness ==
    /\ splitOut # <<>>
    /\ NumPalabras = 5
    /\ Len(Fields(splitOut[1].nombre)) = 2
    /\ Len(Fields(splitOut[1].apellido)) = 3

\* C3: with exactly three words the given name is the first word alone and
\* the surname the second and third joined by one space
C3_TresPalabras ==
    (splitOut # <<>> /\ NumPalabras = 3) =>
        /\ splitOut[1].nombre = nombreIn.toks[1]
        /\ splitOut[1].apellido = nombreIn.toks[2] \o <<" ">> \o nombreIn.toks[3]

C3_Witness ==
    /\ splitOut # <<>>
    /\ NumPalabras = 3
    /\ nombreIn.sep # <<" ">>
    /\ splitOut[1].apellido # <<>>

\* C4: with exactly two words the given name is the first word and the
\* surname the second
C4_DosPalabras ==
    (splitOut # <<>> /\ NumPalabras = 2) =>
        /\ splitOut[1].nombre = nombreIn.toks[1]
        /\ splitOut[1].apellido = nombreIn.toks[2]

C4_Witness ==
    /\ splitOut # <<>>
    /\ NumPalabras = 2
    /\ nombreIn.toks[1] # nombreIn.toks[2]
    /\ splitOut[1].apellido = nombreIn.toks[2]

\* C5: with fewer than two words the surname is empty; the given name is the
\* one word, or the empty string when there is no word
C5_MenosDeDos ==
    (splitOut # <<>> /\ NumPalabras < 2) =>
        /\ splitOut[1].apellido = <<>>
        /\ NumPalabras = 1 => splitOut[1].nombre = nombreIn.toks[1]
        /\ NumPalabras = 0 => splitOut[1].nombre = <<>>

C5_Witness ==
    /\ splitOut # <<>>
    /\ NumPalabras = 1
    /\ nombreIn.lead # <<>>
    /\ nombreIn.trail # <<>>
    /\ splitOut[1].nombre = nombreIn.toks[1]

\* C6: the split is total: for every input string it returns a pair of
\* strings and never panics with an index or a slice bound out of range
C6_SplitTotal ==
    splitOut # <<>> => splitOut[1].panic = FALSE

C6_Witness ==
    /\ splitOut # <<>>
    /\ NumPalabras = 0
    /\ Texto(nombreIn) # <<>>
    /\ splitOut[1].panic = FALSE

(***************************************************************************)
(* Properties of /api/consultar (checked under Spec).                      *)
(***************************************************************************)
PostDecodificada(r) ==
    /\ peticion[r].ruta = RutaConsultar
    /\ peticion[r].metodo = "POST"
    /\ ~DecodeFalla(peticion[r].json)

\* the upstream answered connection r with status 200 and a payload that
\* parses
Respondio200(r) ==
    /\ pc[r] = "respondida"
    /\ sri[r].tipo = "http"
    /\ sri[r].status = 200
    /\ sri[r].json = "objeto"

SoloEspacios(s) == \A i \in 1..Len(s) : IsSpace(s[i])

\* a field yields a name when something is left of it after trimming
Rinde(s) == ~SoloEspacios(s)

\* C7: a POST whose identifier fails validation is answered 400 with an
\* error body, and no outbound request is ever issued for it
C7_InvalidaSinSaliente ==
    \A r \in Conexiones :
        (PostDecodificada(r) /\ ~EsDiezDigitosASCII(peticion[r].cedula)) =>
            /\ salientes[r] = 0
            /\ pc[r] = "respondida"
            /\ respuesta[r].status = 400
            /\ respuesta[r].tipo = "error"
            /\ respuesta[r].error # ""

C7_Witness ==
    \E r \in Conexiones :
        /\ PostDecodificada(r)
        /\ peticion[r].cedula = <<"1", "2", "3">>
        /\ respuesta[r].status = 400
        /\ salientes[r] = 0

\* C8: when the upstream answers 200 with a payload in which denominacion
\* and nombreComercial are both empty or absent, the response is 404 with
\* the "not found" error body
C8_AmbosVacios404 ==
    \A r \in Conexiones :
        (Respondio200(r) /\ sri[r].denominacion = <<>>
                         /\ sri[r].nombreComercial = <<>>) =>
            respuesta[r] = RespuestaError(404, "Cedula no encontrada")

C8_Witness ==
    \E r \in Conexiones :
        /\ Respondio200(r)
        /\ validarCedula(peticion[r].cedula)
        /\ salientes[r] = 1
        /\ sri[r].denominacion = <<>>
        /\ sri[r].nombreComercial = <<>>
        /\ respuesta[r].status = 404

\* C9: when neither field yields a non-empty string after trimming, fields
\* of whitespace only included, the response is 404 and never 200
C9_SoloEspacios404 ==
    \A r \in Conexiones :
        (Respondio200(r) /\ ~Rinde(sri[r].denominacion)
                         /\ ~Rinde(sri[r].nombreComercial)) =>
            respuesta[r].status = 404

\* C10: the name comes from denominacion whenever that field yields a name,
\* nombreComercial never overrides a denominacion that yields one, and
\* nombreComercial is used when denominacion yields none and it does
C10_OrdenDePreferencia ==
    \A r \in Conexiones :
        Respondio200(r) =>
            /\ Rinde(sri[r].denominacion) => campo[r] = "denominacion"
            /\ campo[r] = "nombreComercial" => ~Rinde(sri[r].denominacion)
            /\ (~Rinde(sri[r].denominacion) /\ Rinde(sri[r].nombreComercial))
                   => campo[r] = "nombreComercial"

(***************************************************************************)
(* Properties of the outcomes of the upstream call (checked under Spec;    *)
(* C14 under SpecJusto).                                                   *)
(***************************************************************************)
\* connection r has been answered after its outbound call to the tax
\* registry returned an HTTP answer
RespondioSRI(r) ==
    /\ pc[r] = "respondida"
    /\ peticion[r].ruta = RutaConsultar
    /\ sri[r].tipo = "http"

\* connection r has been answered after its outbound call to the
\* name-lookup site returned an HTTP answer
RespondioSitio(r) ==
    /\ pc[r] = "respondida"
    /\ peticion[r].ruta = RutaNombres
    /\ sitio[r].tipo = "http"

\* the outbound call of connection r failed: no answer, or no body read
FalloDeRed(r) ==
    /\ pc[r] = "respondida"
    /\ \/ sri[r].tipo \in {"errorRed", "errorLectura"}
       \/ sitio[r].tipo \in {"errorRed", "errorLectura"}

ErrorInterno == RespuestaError(500, "Error interno del servidor al consultar")

\* C11: an upstream payload that does not parse is answered 500 on the
\* lookup endpoint, never 404 and never 200, whatever the payload
C11_MalformadoEs500 ==
    \A r \in Conexiones :
        (RespondioSRI(r) /\ sri[r].json = "malformado") =>
            respuesta[r].status = 500

\* C12: an upstream answer with a status other than 200 is answered 500,
\* not 404 and not 200, on the identifier endpoint and on the name endpoint
C12_OtroEstadoEs500 ==
    \A r \in Conexiones :
        /\ (RespondioSRI(r) /\ sri[r].status # 200) => respuesta[r].status = 500
        /\ (RespondioSitio(r) /\ sitio[r].status # 200) => respuesta[r].status = 500

\* C13: when the outbound call times out or fails at the network level the
\* request is answered 500 with the error body, never 200 or 404, and the
\* failure stays with that request: the server keeps serving
C13_FalloDeRedEs500 ==
    \A r \in Conexiones :
        FalloDeRed(r) =>
            /\ respuesta[r] = ErrorInterno
            /\ salientes[r] = 1
            /\ sirviendo

C13_Witness ==
    \E r, q \in Conexiones :
        /\ FalloDeRed(r)
        /\ sri[r].tipo = "errorRed"
        /\ respuesta[r].status = 500
        /\ q # r
        /\ peticion[q].cedula = peticion[r].cedula
        /\ respuesta[q].status = 200

\* C14: no outcome ends the process: the server stays in its serving state
\* and every request that has arrived is eventually responded to
C14_SigueSirviendo ==
    /\ []sirviendo
    /\ \A r \in Conexiones :
        (pc[r] # "libre") ~> (pc[r] = "respondida" /\ respuesta[r].status # 0)

C14_Witness ==
    \E r, q \in Conexiones :
        /\ sirviendo
        /\ pc[r] = "respondida"
        /\ sri[r].tipo = "http" /\ sri[r].json = "malformado"
        /\ respuesta[r].status = 500
        /\ pc[q] = "esperando"

\* the body of the POST on connection r is not a JSON document
JSONMalformado(r) ==
    /\ pc[r] # "libre"
    /\ peticion[r].metodo = "POST"
    /\ peticion[r].json # "objeto"

\* the POST on connection r to the name endpoint lacks a name field, or
\* has one that is blank
NombresEnBlanco(r) ==
    /\ pc[r] # "libre"
    /\ peticion[r].ruta = RutaNombres
    /\ peticion[r].metodo = "POST"
    /\ peticion[r].json = "objeto"
    /\ SoloEspacios(peticion[r].nombres) \/ SoloEspacios(peticion[r].apellidos)

\* C15: a POST with a malformed JSON body, on either endpoint, and a POST
\* to the name endpoint with a missing or blank name field, is answered 400
\* with an error message, and no outbound request is made for it
C15_MalformadoEs400 ==
    \A r \in Conexiones :
        (JSONMalformado(r) \/ NombresEnBlanco(r)) =>
            /\ pc[r] = "respondida"
            /\ respuesta[r].status = 400
            /\ respuesta[r].tipo = "error"
            /\ respuesta[r].error # ""
            /\ salientes[r] = 0

(***************************************************************************)
(* Properties of the search of a cedula (checked under SpecBuscar).        *)
(***************************************************************************)
EsDigito(s, i) == i \in 1..Len(s) /\ s[i] \in Digitos

\* s[i] is an ASCII letter or the underscore
EsLetra(s, i) == i \in 1..Len(s) /\ s[i] \in LetrasASCII \cup {"_"}

\* a run of exactly ten digits starts at i: no digit before it, none
\* after it
CorridaDeDiez(s, i) ==
    /\ ~EsDigito(s, i - 1)
    /\ \A k \in i..(i + 9) : EsDigito(s, k)
    /\ ~EsDigito(s, i + 10)

\* a run of exactly ten digits starts at i and no letter touches it
CorridaAislada(s, i) ==
    /\ CorridaDeDiez(s, i)
    /\ ~EsLetra(s, i - 1)
    /\ ~EsLetra(s, i + 10)

\* the response of the name endpoint reports the ten characters of s that
\* start at the least position of inicios, or not found when there is none
ReportaPrimera(resp, s, inicios) ==
    IF inicios = {}
    THEN resp.status = 404 /\ resp.tipo = "error"
    ELSE \E i \in inicios :
            /\ \A k \in inicios : i <= k
            /\ resp.status = 200
            /\ resp.tipo = "nombres"
            /\ resp.cedula = SubSeq(s, i, i + 9)

\* C16 as stated: an identifier is reported exactly when the page has a run
\* of exactly ten digits bounded by non-digits or by the ends of the text,
\* letters included; the first such run is reported, otherwise 404
C16_CorridaDeDiez ==
    buscarOut # <<>> =>
        LET s == Pagina(textoIn)
        IN  ReportaPrimera(buscarOut[1], s, {i \in 1..Len(s) : CorridaDeDiez(s, i)})

\* C16 amended: an identifier is reported exactly when the page has a run
\* of exactly ten digits bounded on each side by an end of the text or by a
\* character that is no digit, no ASCII letter and no underscore; the
\* first such run is reported, otherwise 404
C16_CorridaAislada ==
    buscarOut # <<>> =>
        LET s == Pagina(textoIn)
        IN  ReportaPrimera(buscarOut[1], s, {i \in 1..Len(s) : CorridaAislada(s, i)})

C16_Witness ==
    /\ buscarOut # <<>>
    /\ textoIn.pre = <<"a">>
    /\ textoIn.n = 10
    /\ textoIn.post = <<"<">>
    /\ textoIn.cola = OtraCedula
    /\ buscarOut[1].status = 200
    /\ buscarOut[1].cedula = <<"0", "9", "8", "7", "6", "5", "4", "3", "2", "1">>

(***************************************************************************)
(* Properties of both handlers (checked under Spec).                       *)
(***************************************************************************)
\* C17: an OPTIONS request to either endpoint is answered 200 without a
\* body and with the cross-origin headers, whatever its body holds, and no
\* outbound call is made for it
C17_OptionsEs200 ==
    \A r \in Conexiones :
        (pc[r] # "libre" /\ peticion[r].metodo = "OPTIONS") =>
            /\ pc[r] = "respondida"
            /\ respuesta[r] = Respuesta(200, "vacio", "", <<>>, <<>>)
            /\ salientes[r] = 0
            /\ sri[r] = SinSRI /\ sitio[r] = SinSitio
            /\ {<<"Access-Control-Allow-Origin", "*">>,
                <<"Access-Control-Allow-Methods", "POST">>,
                <<"Access-Control-Allow-Headers", "Content-Type">>} \subseteq cabeceras[r]

C17_Witness ==
    \E r, q \in Conexiones :
        /\ peticion[r].metodo = "OPTIONS" /\ peticion[q].metodo = "OPTIONS"
        /\ peticion[r].ruta = RutaConsultar /\ peticion[q].ruta = RutaNombres
        /\ peticion[r].json = "malformado"
        /\ validarCedula(peticion[r].cedula) = FALSE
        /\ peticion[q].json = "objeto"
        /\ respuesta[r].status = 200 /\ respuesta[q].status = 200

\* C18: an inbound request causes at most one outbound request, whatever
\* the outcome of that outbound request
C18_SinReintento ==
    \A r \in Conexiones :
        /\ salientes[r] <= 1
        /\ (sri[r].tipo # "" \/ sitio[r].tipo # "") =>
               (salientes[r] = 1 /\ pc[r] = "respondida")

C18_Witness ==
    \E r, q \in Conexiones :
        /\ sri[r].tipo = "errorRed" /\ salientes[r] = 1
        /\ respuesta[r].status = 500
        /\ sitio[q].tipo = "errorLectura" /\ salientes[q] = 1
        /\ respuesta[q].status = 500

\* the body of a response is the error object: the field error alone
FormaDeError(resp) ==
    /\ resp.tipo = "error"
    /\ resp.error # ""
    /\ resp = RespuestaError(resp.status, resp.error)

\* the request on connection r was answered and did not succeed: it was no
\* preflight and the response does not carry the result of a lookup
Fallida(r) ==
    /\ pc[r] = "respondida"
    /\ peticion[r].metodo # "OPTIONS"
    /\ respuesta[r].tipo \notin {"cedula", "nombres"}

\* C19 as stated: whenever a request does not succeed the body is the
\* error object, in every variant of the name endpoint
C19_TodoFalloEsError ==
    \A r \in Conexiones : Fallida(r) => FormaDeError(respuesta[r])

\* C19 amended: every response with an error status (400, 404, 405, 500)
\* has the error object as its body, on both endpoints and in both
\* variants; the one request that does not succeed and is not answered so
\* is the lookup of the informational variant, answered 200 with its
\* informational payload
C19_ErrorConEstado ==
    \A r \in Conexiones :
        /\ (pc[r] = "respondida" /\ respuesta[r].status # 200) =>
               /\ respuesta[r].status \in {400, 404, 405, 500}
               /\ FormaDeError(respuesta[r])
        /\ (Fallida(r) /\ ~FormaDeError(respuesta[r])) =>
               /\ variante = "informativa"
               /\ peticion[r].ruta = RutaNombres
               /\ respuesta[r].status = 200
               /\ respuesta[r].tipo = "informativa"

C19_Witness ==
    \E r, q \in Conexiones :
        /\ variante = "informativa"
        /\ Fallida(r) /\ respuesta[r].tipo = "informativa"
        /\ Fallida(q) /\ respuesta[q].status = 500

PostConNombres(r) ==
    /\ pc[r] # "libre"
    /\ peticion[r].ruta = RutaNombres
    /\ peticion[r].metodo = "POST"
    /\ ~DecodeFalla(peticion[r].json)
    /\ ~SoloEspacios(peticion[r].nombres)
    /\ ~SoloEspacios(peticion[r].apellidos)

\* C22: in the informational variant every POST to the name endpoint with
\* non-blank names is answered 200 with the informational payload, which
\* echoes the names; no identifier is returned and no outbound request made
C22_SiempreInformativa ==
    \A r \in Conexiones :
        (variante = "informativa" /\ PostConNombres(r)) =>
            /\ pc[r] = "respondida"
            /\ respuesta[r].status = 200
            /\ respuesta[r].tipo = "informativa"
            /\ respuesta[r].mensaje # "" /\ respuesta[r].detalles # ""
            /\ respuesta[r].nombres = peticion[r].nombres
            /\ respuesta[r].apellidos = peticion[r].apellidos
            /\ respuesta[r].cedula = <<>>
            /\ salientes[r] = 0
            /\ sitio[r] = SinSitio

C22_Witness ==
    \E r \in Conexiones :
        /\ variante = "informativa"
        /\ PostConNombres(r)
        /\ peticion[r].nombres = <<"J", " ", "P">>
        /\ respuesta[r].tipo = "informativa"
        /\ respuesta[r].nombres = <<"J", " ", "P">>

\* C28: a request that has been handled has one status, written once, out
\* of 200, 400, 404, 405 and 500, and none is written before; a request
\* whose method is neither OPTIONS nor POST is answered 405 with the error
\* body, whatever its body holds, and no outbound call is made for it
C28_UnEstado ==
    \A r \in Conexiones :
        /\ pc[r] = "respondida" =>
               /\ escrituras[r] = 1
               /\ respuesta[r].status \in {200, 400, 404, 405, 500}
        /\ pc[r] # "respondida" =>
               /\ escrituras[r] = 0
               /\ respuesta[r] = SinRespuesta
        /\ (pc[r] # "libre" /\ peticion[r].metodo \notin {"OPTIONS", "POST"}) =>
               /\ pc[r] = "respondida"
               /\ respuesta[r] = RespuestaError(405, "Metodo no permitido")
               /\ salientes[r] = 0
               /\ sri[r] = SinSRI /\ sitio[r] = SinSitio

C28_Witness ==
    \E r, q \in Conexiones :
        /\ peticion[r].metodo = "GET" /\ peticion[r].json = "malformado"
        /\ respuesta[r].status = 405 /\ escrituras[r] = 1
        /\ peticion[q].metodo = "GET" /\ validarCedula(peticion[q].cedula)
        /\ respuesta[q].status = 405 /\ salientes[q] = 0

(***************************************************************************)
(* Properties of the browser check of the cedula (checked under            *)
(* SpecValidar).                                                           *)
(***************************************************************************)
\* C23: the check of the browser and the check of the server return the
\* same boolean for every string, so what the browser lets through the
\* server accepts
C23_MismaValidacion ==
    (validaOut # <<>> /\ frontOut # <<>>) =>
        /\ frontOut[1] = validaOut[1]
        /\ frontOut[1] = EsDiezDigitosASCII(cedulaIn)

C23_Witness ==
    /\ validaOut = <<TRUE>>
    /\ frontOut = <<TRUE>>
    /\ cedulaIn = Plantilla(10, 0, "a")

(***************************************************************************)
(* Properties of the split across the variants (checked under SpecSplit).  *)
(***************************************************************************)
\* the words from position lo to position hi of the name, one space apart
Tramo(lo, hi) == UnEspacio(SubSeq(nombreIn.toks, lo, hi))

\* C26: for every name of two or more words the split of the tax-registry
\* variant is the midpoint partition, first floor(n/2) words and the rest,
\* and the split of the scraping variants is the same partition in upper
\* case
C26_MismaParticion ==
    NumPalabras >= 2 =>
        LET mid == NumPalabras \div 2
        IN  /\ splitOut # <<>> =>
                   /\ splitOut[1].nombre = Tramo(1, mid)
                   /\ splitOut[1].apellido = Tramo(mid + 1, NumPalabras)
            /\ (collyOut # <<>> /\ collyOut[1].tomado) =>
                   /\ collyOut[1].nombre = ToUpper(Tramo(1, mid))
                   /\ collyOut[1].apellido = ToUpper(Tramo(mid + 1, NumPalabras))

C26_Witness ==
    /\ NumPalabras = 3
    /\ splitOut # <<>> /\ collyOut # <<>>
    /\ collyOut[1].tomado
    /\ splitOut[1].nombre = <<"P", "U+00F1">>
    /\ collyOut[1].nombre = <<"P", "U+00D1">>
    /\ Len(Fields(collyOut[1].apellido)) = 2

\* C27: the words of the given name followed by the words of the surname
\* are the words of the input in their order, each part has its words one
\* space apart and no other whitespace, and the given name is not empty
\* when the input has a word
C27_SinPerdida ==
    splitOut # <<>> =>
        \E k \in 0..NumPalabras :
            /\ splitOut[1].nombre = Tramo(1, k)
            /\ splitOut[1].apellido = Tramo(k + 1, NumPalabras)
            /\ NumPalabras >= 1 => k >= 1

C27_Witness ==
    /\ splitOut # <<>>
    /\ NumPalabras = 5
    /\ nombreIn.sep = <<"\n", "U+00A0">>
    /\ nombreIn.lead # <<>>
    /\ Fields(splitOut[1].nombre) \o Fields(splitOut[1].apellido) = nombreIn.toks

(***************************************************************************)
(* Properties of the form body (checked under SpecFormulario).             *)
(***************************************************************************)
\* the pieces of s between the occurrences of c
RECURSIVE PartirEn(_, _, _)
PartirEn(s, c, cur) ==
    IF s = <<>> THEN <<cur>>
    ELSE IF Head(s) = c THEN <<cur>> \o PartirEn(Tail(s), c, <<>>)
    ELSE PartirEn(Tail(s), c, Append(cur, Head(s)))

\* the position of the first c in s, 0 when there is none
PrimerIndice(s, c) ==
    IF \E i \in 1..Len(s) : s[i] = c
    THEN CHOOSE i \in 1..Len(s) : s[i] = c /\ \A j \in 1..(i - 1) : s[j] # c
    ELSE 0

\* a plus sign of a form body stands for a space
Desescapar(s) == [i \in 1..Len(s) |-> IF s[i] = "+" THEN " " ELSE s[i]]

\* one parameter of a form body: the key before the first "=", the value
\* after it
Parametro(seg) ==
    LET i == PrimerIndice(seg, "=")
    IN  IF i = 0 THEN [clave |-> Desescapar(seg), valor |-> <<>>]
        ELSE [clave |-> Desescapar(SubSeq(seg, 1, i - 1)),
              valor |-> Desescapar(SubSeq(seg, i + 1, Len(seg)))]

\* the parameters a receiver of application/x-www-form-urlencoded reads
ParametrosDe(cuerpo) ==
    LET segs == PartirEn(cuerpo, "&", <<>>)
    IN  [i \in 1..Len(segs) |-> Parametro(segs[i])]

\* C30: for every pair of names the name endpoint accepts, the body sent
\* to the site decodes to two parameters, nombres and apellidos, whose
\* values are the names submitted
C30_DosParametros ==
    (formOut # <<>> /\ formOut[1].enviado) =>
        ParametrosDe(formOut[1].cuerpo) =
            <<[clave |-> ClaveNombres, valor |-> formIn.nombres],
              [clave |-> ClaveApellidos, valor |-> formIn.apellidos]>>

(***************************************************************************)
(* Properties of the page.                                                 *)
(***************************************************************************)
\* C21: when the fetch of the last finished lookup resolved with a
\* response, whatever its status and body, the results do not show the
\* connection-error message
C21_RecibidaNoEsConexion ==
    recibido.tipo = "http" => vista.mensaje # MsgConexion

\* C24: there is never more than one lookup in flight, and no step taken
\* while isLoading is true starts another one
C24_UnaEnVuelo ==
    /\ [](Len(enVuelo) <= 1)
    /\ [][isLoading => Len(enVuelo') <= Len(enVuelo)]_vars

\* a submit of one form was ignored while the lookup of the other form
\* was still pending
C24_Witness ==
    /\ isLoading
    /\ Len(enVuelo) = 1
    /\ ultimo.efecto = "ignorado"
    /\ ultimo.tipo # enVuelo[1].tipo

\* C25: whenever a lookup is in flight, a state follows in which isLoading
\* is false and no submit button is disabled
C25_SeLibera ==
    (enVuelo # <<>>) ~> (~isLoading /\ \A f \in Formularios : ~deshabilitado[f])

\* a lookup ended on a response whose body was not JSON and the page is
\* idle again
C25_Witness ==
    /\ recibido.tipo = "http"
    /\ recibido.cuerpo # "json"
    /\ enVuelo = <<>>
    /\ ~isLoading
    /\ \A f \in Formularios : ~deshabilitado[f]

\* C29: the success panel of the lookup by names prints an identifier, and
\* a response of the name endpoint without one is shown as the
\* alternatives or as an error
C29_ExitoConCedula ==
    /\ vista.panel = "exitoNombres" => vista.cedula # <<>>
    /\ (recibido.tipo = "http" /\ recibido.data.tipo \in {"informativa", "error"})
          => vista.panel \in {"alternativas", "error"}

====
